---- MODULE Spec2Model ----
(***************************************************************************)
(* Grant Discovery Sync Pipeline of wright-adventures.                     *)
(*                                                                         *)
(* The model follows api/discovery/sync.ts (the sync handler) and the      *)
(* discovery/cancel handler, over the tables of the migrations:            *)
(* opportunities, discovery_queries, org_profiles, discovery_runs and      *)
(* token_budgets. A model response is a sequence of lexical tokens, so     *)
(* that parseJson is computed on it as the code computes it.               *)
(* One action is one awaited step of a handler, so that concurrent         *)
(* invocations interleave exactly where the code yields.                   *)
(*                                                                         *)
(* Modelling assumptions: the database answers every statement (the only   *)
(* rejected statements are constraint violations and type errors of the    *)
(* inserted values); the platform does not kill an invocation; scores are  *)
(* held in tenths (50 is 5.0).                                             *)
(***************************************************************************)
EXTENDS Integers, Sequences, FiniteSets, TLC

(* ------------------------------ bounds --------------------------------- *)

\* number of sync invocations (scheduled or manual) in one behaviour
MaxRuns == 2

\* number of authorized cancel requests in one behaviour
MaxCancels == 2

\* largest cursor value a query may hold in the initial state
MaxPage == 3

\* longest model response, in tokens
MaxText == 4

(* --------------------------- program constants ------------------------- *)

MAX_NEW_PER_RUN == 7

\* preScreen: award ceilings below this are rejected
MIN_AWARD_CEILING == 5000

\* threshold gate, in tenths: weighted_score < 5.0 is discarded
SCORE_FLOOR == 50

\* NUMERIC(3,1): values of magnitude 100.0 and above overflow (in tenths)
NUMERIC_3_1_LIMIT == 1000

SIMPLER_GRANTS_GOV == "simpler_grants_gov"

(* ------------------------------ helpers -------------------------------- *)

Range(s) == {s[i] : i \in 1..Len(s)}

\* JS Set.add over a list of ids: insertion order kept, repeats ignored
RECURSIVE AddAll(_, _)
AddAll(acc, ids) ==
  IF ids = <<>> THEN acc
  ELSE AddAll(IF Head(ids) \in Range(acc) THEN acc ELSE Append(acc, Head(ids)),
              Tail(ids))

\* Array.prototype.filter
RECURSIVE Filter(_, _)
Filter(s, keep) ==
  IF s = <<>> THEN <<>>
  ELSE IF Head(s) \in keep THEN <<Head(s)>> \o Filter(Tail(s), keep)
       ELSE Filter(Tail(s), keep)

\* Slice0 that keeps the whole array
Slice0All(s, n) == s

\* Array.prototype.slice(0, n)
Slice0(s, n) == SubSeq(s, 1, IF Len(s) < n THEN Len(s) ELSE n)

(* ------------------------------ values --------------------------------- *)

Num(v)  == [tag |-> "num", val |-> v]
Null    == [tag |-> "null", val |-> 0]
Absent  == [tag |-> "absent", val |-> 0]
NonNum  == [tag |-> "str", val |-> 0]

\* award ceilings the extraction stage may report
AmountValues == {Null, Num(4999), Num(5000)}

\* weighted_score values the scoring stage may report
ScoreValues == {Num(49), Num(50), Absent, NonNum}

\* token usage a model call may report
Usages == {1, 2}

ZeroStats ==
  [opportunities_fetched         |-> 0,
   opportunities_deduplicated    |-> 0,
   opportunities_detail_fetched  |-> 0,
   opportunities_auto_rejected   |-> 0,
   opportunities_below_threshold |-> 0,
   opportunities_inserted        |-> 0,
   tokens_haiku                  |-> 0,
   tokens_sonnet                 |-> 0,
   error_log                     |-> <<>>]

(* --------------------------- model responses --------------------------- *)

\* the lexical classes of a response text: a brace, a run of JSON text
\* without braces (keys, values, punctuation) that fits its place, and a
\* run of text that is no JSON
Tokens == {"{", "}", "m", "p"}

\* every response text of at most n tokens
AllTexts(n) == UNION {[1..k -> Tokens] : k \in 0..n}

\* a response that is a JSON object, and one that is prose only
ObjectText == <<"{", "m", "}">>
ProseText  == <<"p">>

\* the value null of parseJson
JsonNull == <<>>

Least(S)    == CHOOSE x \in S : \A y \in S : x <= y
Greatest(S) == CHOOSE x \in S : \A y \in S : y <= x

\* text.match(/\{[\s\S]*\}/): the greedy match runs from the first opening
\* brace to the last closing brace after it; null if there is none
RegexMatch(text) ==
  LET opens  == {i \in 1..Len(text) : text[i] = "{"}
      closes == {i \in 1..Len(text) : text[i] = "}"}
  IN IF opens = {} \/ closes = {} \/ Least(opens) > Greatest(closes)
     THEN JsonNull
     ELSE SubSeq(text, Least(opens), Greatest(closes))

\* nesting depth after the first i tokens
Depth(s, i) ==
  Cardinality({j \in 1..i : s[j] = "{"}) - Cardinality({j \in 1..i : s[j] = "}"})

\* JSON.parse accepts s: one object, from its opening brace to the closing
\* brace that balances it, holding JSON text only, every nested object
\* being the value of a member
JsonParses(s) ==
  /\ Len(s) >= 2
  /\ s[1] = "{"
  /\ \A i \in 1..Len(s) : s[i] # "p"
  /\ \A i \in 1..(Len(s) - 1) : Depth(s, i) > 0
  /\ Depth(s, Len(s)) = 0
  /\ \A i \in 2..Len(s) : s[i] = "{" => s[i - 1] = "m"

\* parseJson: the parsed object (the text it was parsed from), or null
ParseJson(text) ==
  IF RegexMatch(text) = JsonNull THEN JsonNull
  ELSE IF JsonParses(RegexMatch(text)) THEN RegexMatch(text)
  ELSE JsonNull

(* ------------------------ the external registry ------------------------ *)

QueryIds == {"q1", "q2", "q3"}

\* ORDER BY priority ASC
QueryOrder == <<"q1", "q2", "q3">>

\* pages of opportunity ids the registry holds for each query: two pages,
\* one page that repeats an id of another query, and no result at all
SmallRegistry ==
  [q \in QueryIds |->
     CASE q = "q1" -> << <<"a">>, <<"b">> >>
       [] q = "q2" -> << <<"a">> >>
       [] q = "q3" -> << >>]


\* a registry whose second query has more new results on its first page
\* than a run takes, and a second page
LargeRegistry ==
  [q \in QueryIds |->
     CASE q = "q1" -> << >>
       [] q = "q2" -> << <<"a", "b", "c", "d", "e", "f", "g", "i">>, <<"j">> >>
       [] q = "q3" -> << >>]

\* a registry whose second query has a single page with more results than
\* a run takes
CrowdedRegistry ==
  [q \in QueryIds |->
     CASE q = "q1" -> << >>
       [] q = "q2" -> << <<"a", "b", "c", "d", "e", "f", "g", "i">> >>
       [] q = "q3" -> << >>]

(* ------------------------------- state --------------------------------- *)

VARIABLES
  opportunities,      \* table opportunities: set of rows
  discovery_queries,  \* table discovery_queries: query id -> row
  org_profiles,       \* table org_profiles: set of rows
  discovery_runs,     \* table discovery_runs: sequence of rows, in start order
  h,                  \* per run: the locals and position of its sync handler
  cancelReq,          \* the cancel request in flight, between its select and update
  cancels,            \* number of cancel requests received
  signal,             \* per run: handler position when 'cancelling' was written
  env,                \* the environment of the behaviour: what the registry
                      \* holds, which answers the external services may give
                      \* and how many requests arrive; it never changes
  token_budgets,      \* table token_budgets: the row of the current period
  lastRequest         \* the latest request to the sync endpoint and its answer

vars == <<opportunities, discovery_queries, org_profiles, discovery_runs,
          h, cancelReq, cancels, signal, env, token_budgets, lastRequest>>

Runs == 1..Len(discovery_runs)

NoFields == [amount_max |-> Absent]
NoScore  == [auto_rejected |-> FALSE, weighted_score |-> Absent]
NoCancel == [run |-> 0, status |-> "none"]
NoSignal == [set |-> FALSE, pc |-> "none", processed |-> 0]
NoText   == <<"no response">>

\* the ids of the candidate the handler of run r is working on
Candidate(r) == h[r].batch[h[r].bi]

\* number of candidates of the batch whose loop iteration began
Processed(r) == h[r].bi - 1

(* ------------------------------ requests ------------------------------- *)

Methods == {"GET", "POST", "PUT"}

\* what the Authorization header of a request carries: nothing usable, the
\* cron secret, the JWT of an admin, the JWT of a user who is no admin
Credentials == {"none", "cron", "admin", "user"}

AllRequests == [method : Methods, auth : Credentials]

\* the requests of the scheduler and of the admin page
UsualRequests == {[method |-> "GET", auth |-> "cron"],
                  [method |-> "POST", auth |-> "admin"]}

NoRequest == [method |-> "none", auth |-> "none", answer |-> "none"]

(* ------------------------------ Init ----------------------------------- *)

\* operator-editable configuration the pipeline only reads
Configs ==
  { [profile |-> TRUE,  enabled |-> {"q1", "q2", "q3"}],
    [profile |-> TRUE,  enabled |-> {"q2", "q3"}],
    [profile |-> FALSE, enabled |-> {"q1", "q2", "q3"}],
    [profile |-> TRUE,  enabled |-> {}] }

\* one invocation against the small registry; every external call may fail
\* and the models may answer anything
SingleRunEnv ==
  [registry |-> SmallRegistry,
   runs     |-> 1,
   cancels  |-> MaxCancels,
   faults   |-> TRUE,
   amounts  |-> AmountValues,
   scores   |-> ScoreValues,
   rejects  |-> BOOLEAN,
   usages   |-> Usages,
   texts    |-> {ObjectText, ProseText},
   requests |-> UsualRequests,
   overlap  |-> TRUE,
   seed     |-> {}]

\* the state after deployment: the tables as the migrations and the operator
\* left them, no run yet; the first query's cursor is any page it may have
\* been left at
InitTables(e, configs, pages) ==
  /\ env = e
  /\ opportunities = e.seed
  /\ \E c \in configs, p \in pages :
       /\ org_profiles = {[id |-> "p1", is_active |-> c.profile]}
       /\ discovery_queries =
            [q \in QueryIds |->
               [enabled      |-> q \in c.enabled,
                current_page |-> IF q = "q1" THEN p ELSE 1]]
  /\ discovery_runs = <<>>
  /\ h = <<>>
  /\ cancelReq = NoCancel
  /\ cancels = 0
  /\ signal = <<>>
  /\ token_budgets = [tokens_used |-> 0]
  /\ lastRequest = NoRequest

Init == InitTables(SingleRunEnv, Configs, 1..MaxPage)

\* as SingleRunEnv, every model call reporting the same usage
LiveEnv == [SingleRunEnv EXCEPT !.usages = {1}]

InitLive == InitTables(LiveEnv, Configs, 1..MaxPage)

\* overlapping invocations (a scheduled and a manual trigger, or several
\* manual ones) of one query; every call succeeds, every candidate passes
\* the pre-screen and is scored at the floor or just below it
OverlapEnv ==
  [registry |-> SmallRegistry,
   runs     |-> MaxRuns,
   cancels  |-> 1,
   faults   |-> FALSE,
   amounts  |-> {Num(5000)},
   scores   |-> {Num(49), Num(50)},
   rejects  |-> {FALSE},
   usages   |-> {1},
   texts    |-> {ObjectText},
   requests |-> UsualRequests,
   overlap  |-> TRUE,
   seed     |-> {}]

\* the configurations of the overlapping invocations
OverlapConfigs ==
  { [profile |-> TRUE,  enabled |-> {"q2"}],
    [profile |-> FALSE, enabled |-> {"q2"}] }

InitOverlap == InitTables(OverlapEnv, OverlapConfigs, {1})

\* one invocation whose external calls all succeed and whose models may
\* answer any text of up to MaxText tokens
ParseEnv ==
  [OverlapEnv EXCEPT !.runs = 1, !.scores = {Num(50)}, !.texts = AllTexts(MaxText)]

InitParse == InitTables(ParseEnv, OverlapConfigs, {1})

\* one invocation whose calls all succeed, among requests of every method
\* and with every kind of credentials
RequestEnv == [OverlapEnv EXCEPT !.runs = 1, !.requests = AllRequests]

InitRequests == InitTables(RequestEnv, OverlapConfigs, {1})

\* a row an operator entered by hand, carrying the registry's id of the grant
ManualRow ==
  [id |-> 1, source |-> "manual", external_id |-> "a", ai_match_score |-> Null,
   run |-> 0]

\* one invocation whose calls all succeed, over a table that holds a row of
\* another source
SeededEnv == [OverlapEnv EXCEPT !.runs = 1, !.seed = {ManualRow}]

InitSeeded == InitTables(SeededEnv, Configs, 1..MaxPage)

\* two invocations against the large registry, the second arriving when
\* the first has ended (the scheduler's cadence is a day); every call
\* succeeds and every candidate is inserted
CapEnv ==
  [OverlapEnv EXCEPT !.registry = LargeRegistry, !.runs = 2, !.overlap = FALSE,
                     !.scores = {Num(50)}]

InitCap == InitTables(CapEnv, OverlapConfigs, {1})

\* two invocations, one after the other, against the crowded registry;
\* every call succeeds and the scoring model puts every candidate below
\* the floor
CrowdedEnv ==
  [OverlapEnv EXCEPT !.registry = CrowdedRegistry, !.runs = 2, !.overlap = FALSE,
                     !.scores = {Num(49)}]

InitCrowded == InitTables(CrowdedEnv, OverlapConfigs, {1})

\* recurring invocations against the small registry, each arriving when
\* the one before has ended; every call succeeds
SweepEnv == [OverlapEnv EXCEPT !.overlap = FALSE]

InitSweep == InitTables(SweepEnv, Configs, 1..MaxPage)

(* ------------------------- sync handler: start ------------------------- *)

\* the run row is created for an authorized request; in an environment
\* without overlap a request arrives only when no handler is at work
Trigger(t) ==
  /\ Len(discovery_runs) < env.runs
  /\ env.overlap \/ \A r \in Runs : h[r].pc = "done"
  /\ discovery_runs' = Append(discovery_runs,
       [status         |-> "running",
        triggered_by   |-> t,
        completed_at   |-> FALSE,
        org_profile_id |-> "null",
        stats          |-> ZeroStats])
  /\ h' = Append(h,
       [pc         |-> "loadProfile",
        orgProfile |-> "null",
        queries    |-> <<>>,
        qi         |-> 1,
        allIds     |-> <<>>,
        batch      |-> <<>>,
        bi         |-> 1,
        stats      |-> ZeroStats,
        fields     |-> NoFields,
        score      |-> NoScore,
        newIds     |-> <<>>,
        text       |-> NoText])
  /\ signal' = Append(signal, NoSignal)
  /\ UNCHANGED <<opportunities, discovery_queries, org_profiles, cancelReq, cancels, env, token_budgets>>

\* AuthorizeAny: every bearer token is taken for an admin's
AuthorizeAny(req) ==
  IF req.auth = "cron" THEN "cron"
  ELSE IF req.auth \in {"admin", "user"} THEN "manual"
  ELSE "401"

\* the cron secret gives 'cron', the JWT of an admin (isAdminJwt) 'manual',
\* anything else is unauthorized
Authorize(req) ==
  IF req.auth = "cron" THEN "cron"
  ELSE IF req.auth = "admin" THEN "manual"
  ELSE "401"

\* the sync endpoint receives a request: 405 for a method other than GET and
\* POST, 401 without the cron secret or an admin's JWT, else the run starts
Receive(req) ==
  IF req.method \notin {"GET", "POST"}
  THEN /\ lastRequest' = [method |-> req.method, auth |-> req.auth, answer |-> "405"]
       /\ UNCHANGED <<opportunities, discovery_queries, org_profiles, discovery_runs,
                      h, cancelReq, cancels, signal, env, token_budgets>>
  ELSE IF Authorize(req) = "401"
  THEN /\ lastRequest' = [method |-> req.method, auth |-> req.auth, answer |-> "401"]
       /\ UNCHANGED <<opportunities, discovery_queries, org_profiles, discovery_runs,
                      h, cancelReq, cancels, signal, env, token_budgets>>
  ELSE /\ lastRequest' = [method |-> req.method, auth |-> req.auth, answer |-> "run"]
       /\ Trigger(Authorize(req))

\* LoadOrgProfile that goes on without a profile
LoadOrgProfileLenient(r) ==
  /\ h[r].pc = "loadProfile"
  /\ LET active == {p \in org_profiles : p.is_active} IN
       IF active = {}
       THEN h' = [h EXCEPT ![r].pc = "loadQueries"]
       ELSE h' = [h EXCEPT ![r].pc = "loadQueries",
                           ![r].orgProfile = (CHOOSE p \in active : TRUE).id]
  /\ UNCHANGED <<opportunities, discovery_queries, org_profiles, discovery_runs,
                 cancelReq, cancels, signal, env, token_budgets, lastRequest>>

\* select id, prompt_text from org_profiles where is_active; throw if none
LoadOrgProfile(r) ==
  /\ h[r].pc = "loadProfile"
  /\ LET active == {p \in org_profiles : p.is_active} IN
       IF active = {}
       THEN h' = [h EXCEPT ![r].pc = "fatal"]
       ELSE h' = [h EXCEPT ![r].pc = "loadQueries",
                           ![r].orgProfile = (CHOOSE p \in active : TRUE).id]
  /\ UNCHANGED <<opportunities, discovery_queries, org_profiles, discovery_runs,
                 cancelReq, cancels, signal, env, token_budgets, lastRequest>>

\* EnabledQueries that starts every query at its first page
EnabledQueriesFirstPage ==
  LET RECURSIVE Pick(_)
      Pick(s) == IF s = <<>> THEN <<>>
                 ELSE IF discovery_queries[Head(s)].enabled
                      THEN <<[id |-> Head(s), current_page |-> 1]>>
                           \o Pick(Tail(s))
                      ELSE Pick(Tail(s))
  IN Pick(QueryOrder)

\* the enabled queries in priority order, each with the cursor read now
EnabledQueries ==
  LET RECURSIVE Pick(_)
      Pick(s) == IF s = <<>> THEN <<>>
                 ELSE IF discovery_queries[Head(s)].enabled
                      THEN <<[id |-> Head(s),
                              current_page |-> discovery_queries[Head(s)].current_page]>>
                           \o Pick(Tail(s))
                      ELSE Pick(Tail(s))
  IN Pick(QueryOrder)

LoadQueries(r) ==
  /\ h[r].pc = "loadQueries"
  /\ IF EnabledQueries = <<>>
     THEN h' = [h EXCEPT ![r].pc = "fatal"]
     ELSE h' = [h EXCEPT ![r].pc = "search",
                         ![r].queries = EnabledQueries,
                         ![r].qi = 1]
  /\ UNCHANGED <<opportunities, discovery_queries, org_profiles, discovery_runs,
                 cancelReq, cancels, signal, env, token_budgets, lastRequest>>


(* --------------------- search fetch and page cursor -------------------- *)

\* the registry's answer to a search for page pageOffset of query q
SearchIds(q, pageOffset) ==
  IF pageOffset \in 1..Len(env.registry[q]) THEN env.registry[q][pageOffset]
  ELSE <<>>

\* pagination_info.total_pages of the answer
TotalPages(q) == Len(env.registry[q])

\* NextPage wrapping one page late: > in place of >=
NextPageLateWrap(current_page, totalPages) ==
  IF current_page > totalPages THEN 1 ELSE current_page + 1

\* advance the page; wrap to 1 after the last page
NextPage(current_page, totalPages) ==
  IF current_page >= totalPages THEN 1 ELSE current_page + 1

\* the answers an external call may give: it succeeds, or it fails when the
\* environment has failures
CallOk == IF env.faults THEN BOOLEAN ELSE {TRUE}

\* whether a call of the Anthropic client throws: it may when the
\* environment has failures
ModelThrows == IF env.faults THEN BOOLEAN ELSE {FALSE}

\* Outcome that takes every answer for an object
OutcomeAlwaysParsed(thrown, text) ==
  IF thrown THEN "throw" ELSE "parsed"

\* what becomes of a model call: it throws, or it answers a text, which
\* parseJson turns into an object or into null
Outcome(thrown, text) ==
  IF thrown THEN "throw"
  ELSE IF ParseJson(text) = JsonNull THEN "unparsed"
  ELSE "parsed"

\* PushError with the entry swallowed
PushErrorDropped(stats, label) == stats

\* stats.error_log.push({ label, error, timestamp }); the entries of a catch
\* block hold the message of the error thrown as well
PushError(stats, label) ==
  [stats EXCEPT !.error_log = Append(@, label)]

\* one iteration of the query loop: the search call either answers, and the
\* cursor of the query is advanced, or throws, and the error is logged
SearchQuery(r) ==
  /\ h[r].pc = "search"
  /\ LET query == h[r].queries[h[r].qi]
         last  == h[r].qi = Len(h[r].queries)
         pcN   == IF last THEN "dedup" ELSE "search"
     IN \E ok \in CallOk :
          IF ok
          THEN LET ids == SearchIds(query.id, query.current_page)
                   nextPage == NextPage(query.current_page, TotalPages(query.id))
               IN /\ h' = [h EXCEPT
                             ![r].allIds = AddAll(@, ids),
                             ![r].stats.opportunities_fetched = @ + Len(ids),
                             ![r].qi = @ + 1,
                             ![r].pc = pcN]
                  /\ discovery_queries' =
                       [discovery_queries EXCEPT ![query.id].current_page = nextPage]
          ELSE /\ h' = [h EXCEPT
                          ![r].stats = PushError(@, <<"query", query.id>>),
                          ![r].qi = @ + 1,
                          ![r].pc = pcN]
               /\ UNCHANGED discovery_queries
  /\ UNCHANGED <<opportunities, org_profiles, discovery_runs, cancelReq, cancels, signal, env, token_budgets, lastRequest>>

(* ------------------------------- dedup --------------------------------- *)

\* select external_id from opportunities
\*   where external_id in (idArray) and external_id is not null
ExistingIds(idArray) ==
  {row.external_id : row \in {o \in opportunities :
                                 /\ o.external_id # "null"
                                 /\ o.external_id \in Range(idArray)}}

\* NewIds without the filter against the existing ids
NewIdsUnfiltered(idArray) == idArray

\* idArray.filter(id => !existingIds.has(id))
NewIds(idArray) == Filter(idArray, Range(idArray) \ ExistingIds(idArray))

Deduplicate(r) ==
  /\ h[r].pc = "dedup"
  /\ LET idArray == h[r].allIds
         newIds  == NewIds(idArray)
         batch   == Slice0(newIds, MAX_NEW_PER_RUN)
     IN h' = [h EXCEPT
                ![r].stats.opportunities_deduplicated = Len(idArray) - Len(newIds),
                ![r].newIds = newIds,
                ![r].batch = batch,
                ![r].bi = 1,
                ![r].pc = IF batch = <<>> THEN "finalize" ELSE "check"]
  /\ UNCHANGED <<opportunities, discovery_queries, org_profiles, discovery_runs,
                 cancelReq, cancels, signal, env, token_budgets, lastRequest>>

(* ------------------------- the candidate loop -------------------------- *)

\* Continue that starts the same candidate again
ContinueRetry(r, stats) ==
  [h[r] EXCEPT !.stats = stats, !.pc = "check"]

\* the handler state after the loop iteration of the current candidate ends
\* with the given stats: the next candidate's check, or finalization
Continue(r, stats) ==
  [h[r] EXCEPT
     !.stats  = stats,
     !.bi     = @ + 1,
     !.pc     = IF h[r].bi = Len(h[r].batch) THEN "finalize" ELSE "check"]

\* isCancelling: re-read the run's own status
IsCancelling(r) == discovery_runs[r].status = "cancelling"

\* the check that opens a loop iteration; fields, score and the response
\* text are the iteration's own bindings, so those of the previous candidate
\* are gone
CheckCancel(r) ==
  /\ h[r].pc = "check"
  /\ h' = [h EXCEPT ![r].pc = IF IsCancelling(r) THEN "cancelled" ELSE "detail",
                    ![r].fields = NoFields,
                    ![r].score = NoScore,
                    ![r].text = NoText]
  /\ UNCHANGED <<opportunities, discovery_queries, org_profiles, discovery_runs,
                 cancelReq, cancels, signal, env, token_budgets, lastRequest>>

\* update discovery_runs set status = 'cancelled', completed_at, ...stats
WriteCancelled(r) ==
  /\ h[r].pc = "cancelled"
  /\ discovery_runs' = [discovery_runs EXCEPT
       ![r].status = "cancelled",
       ![r].completed_at = TRUE,
       ![r].stats = h[r].stats]
  /\ h' = [h EXCEPT ![r].pc = "done"]
  /\ UNCHANGED <<opportunities, discovery_queries, org_profiles, cancelReq, cancels, signal, env, token_budgets, lastRequest>>

\* FetchDetail that does not count the details it fetched
FetchDetailUncounted(r) ==
  /\ h[r].pc = "detail"
  /\ \E ok \in CallOk :
       IF ok
       THEN h' = [h EXCEPT ![r].pc = "extract"]
       ELSE h' = [h EXCEPT ![r] = Continue(r, PushError(h[r].stats,
                                  <<"process", Candidate(r), "Detail API">>))]
  /\ UNCHANGED <<opportunities, discovery_queries, org_profiles, discovery_runs,
                 cancelReq, cancels, signal, env, token_budgets, lastRequest>>

\* fetchDetail: throws on a non-ok answer, caught as process:<id>
FetchDetail(r) ==
  /\ h[r].pc = "detail"
  /\ \E ok \in CallOk :
       IF ok
       THEN h' = [h EXCEPT ![r].stats.opportunities_detail_fetched = @ + 1,
                           ![r].pc = "extract"]
       ELSE h' = [h EXCEPT ![r] = Continue(r, PushError(h[r].stats,
                                  <<"process", Candidate(r), "Detail API">>))]
  /\ UNCHANGED <<opportunities, discovery_queries, org_profiles, discovery_runs,
                 cancelReq, cancels, signal, env, token_budgets, lastRequest>>

\* PreScreenRejects with <= in place of <
PreScreenRejectsInclusive(fields) ==
  /\ fields.amount_max # Null
  /\ fields.amount_max.tag = "num"
  /\ fields.amount_max.val <= MIN_AWARD_CEILING

\* preScreen: a rejection reason exists iff the ceiling is a number below the floor
PreScreenRejects(fields) ==
  /\ fields.amount_max # Null
  /\ fields.amount_max.tag = "num"
  /\ fields.amount_max.val < MIN_AWARD_CEILING

\* extractFields, then the pre-screen of the extracted fields
ExtractFields(r) ==
  /\ h[r].pc = "extract"
  /\ \E thrown \in ModelThrows, text \in env.texts,
        usage \in env.usages, amount \in env.amounts :
       LET counted == [h[r].stats EXCEPT !.tokens_haiku = @ + usage]
           fields  == [amount_max |-> amount]
           outcome == Outcome(thrown, text)
       IN CASE outcome = "throw" ->
                 /\ h' = [h EXCEPT ![r] = Continue(r, PushError(h[r].stats,
                                     <<"process", Candidate(r), "Anthropic API">>))]
            [] outcome = "unparsed" ->
                 /\ h' = [h EXCEPT ![r] = [Continue(r, PushError(counted,
                                               <<"extract", Candidate(r)>>))
                                EXCEPT !.text = text]]
            [] outcome = "parsed" ->
                 IF PreScreenRejects(fields)
                 THEN h' = [h EXCEPT ![r] = [Continue(r,
                              [counted EXCEPT !.opportunities_auto_rejected = @ + 1])
                                EXCEPT !.fields = fields, !.text = text]]
                 ELSE h' = [h EXCEPT ![r].stats = counted,
                                     ![r].fields = fields,
                                     ![r].text = text,
                                     ![r].pc = "score"]
  /\ UNCHANGED <<opportunities, discovery_queries, org_profiles, discovery_runs,
                 cancelReq, cancels, signal, env, token_budgets, lastRequest>>


(* ----------------------- scoring and threshold gate -------------------- *)

\* the JavaScript comparison  v < bound  for a bound that is a number:
\* undefined and a non-numeric string convert to NaN (false), null to 0
JsLessThan(v, bound) ==
  CASE v.tag = "num"    -> v.val < bound
    [] v.tag = "null"   -> 0 < bound
    [] v.tag = "absent" -> FALSE
    [] v.tag = "str"    -> FALSE

\* AutoRejected with the flag ignored
AutoRejectedIgnored(score) == FALSE

\* if (score.auto_rejected)
AutoRejected(score) == score.auto_rejected

\* if (score.weighted_score < 5.0)
BelowThreshold(score) == JsLessThan(score.weighted_score, SCORE_FLOOR)

\* scoreOpportunity, then the auto-reject test and the threshold gate
ScoreOpportunity(r) ==
  /\ h[r].pc = "score"
  /\ \E thrown \in ModelThrows, text \in env.texts, usage \in env.usages,
        rejected \in env.rejects, ws \in env.scores :
       LET counted == [h[r].stats EXCEPT !.tokens_sonnet = @ + usage]
           score   == [auto_rejected |-> rejected, weighted_score |-> ws]
           outcome == Outcome(thrown, text)
       IN CASE outcome = "throw" ->
                 /\ h' = [h EXCEPT ![r] = [Continue(r, PushError(h[r].stats,
                                     <<"process", Candidate(r), "Anthropic API">>))
                                EXCEPT !.text = NoText]]
            [] outcome = "unparsed" ->
                 /\ h' = [h EXCEPT ![r] = [Continue(r, PushError(counted,
                                               <<"score", Candidate(r)>>))
                                EXCEPT !.text = text]]
            [] outcome = "parsed" ->
                 IF AutoRejected(score)
                 THEN h' = [h EXCEPT ![r] = [Continue(r,
                              [counted EXCEPT !.opportunities_auto_rejected = @ + 1])
                                EXCEPT !.score = score, !.text = text]]
                 ELSE IF BelowThreshold(score)
                 THEN h' = [h EXCEPT ![r] = [Continue(r,
                              [counted EXCEPT !.opportunities_below_threshold = @ + 1])
                                EXCEPT !.score = score, !.text = text]]
                 ELSE h' = [h EXCEPT ![r].stats = counted,
                                     ![r].score = score,
                                     ![r].text = text,
                                     ![r].pc = "insert"]
  /\ UNCHANGED <<opportunities, discovery_queries, org_profiles, discovery_runs,
                 cancelReq, cancels, signal, env, token_budgets, lastRequest>>

(* ------------------------------ insertion ------------------------------ *)

\* UniqueViolation without the unique index
UniqueViolationNoIndex(source, external_id) == FALSE

\* opportunities_source_external_id_idx: unique (source, external_id)
\* where external_id is not null
UniqueViolation(source, external_id) ==
  /\ external_id # "null"
  /\ \E o \in opportunities : o.source = source /\ o.external_id = external_id

\* ai_match_score NUMERIC(3,1): a number out of range and a non-numeric
\* string are rejected; a key that is absent from the body stores NULL
NumericRejected(v) ==
  CASE v.tag = "num"    -> v.val >= NUMERIC_3_1_LIMIT \/ v.val <= -NUMERIC_3_1_LIMIT
    [] v.tag = "str"    -> TRUE
    [] v.tag = "null"   -> FALSE
    [] v.tag = "absent" -> FALSE

NumericStored(v) == IF v.tag = "num" THEN v ELSE Null

\* InsertRow as an upsert: a row with the same key is overwritten
InsertRowUpsert(row) ==
  IF NumericRejected(row.ai_match_score)
  THEN opportunities
  ELSE {o \in opportunities : ~(o.source = row.source /\ o.external_id = row.external_id)}
       \cup
         {[id             |-> Cardinality(opportunities) + 1,
           source         |-> row.source,
           external_id    |-> row.external_id,
           ai_match_score |-> NumericStored(row.ai_match_score),
           run            |-> row.run]}

\* insert into opportunities: the statement either adds the row or is
\* rejected, and a rejected statement leaves the table as it was
InsertRow(row) ==
  IF UniqueViolation(row.source, row.external_id) \/ NumericRejected(row.ai_match_score)
  THEN opportunities
  ELSE opportunities \cup
         {[id             |-> Cardinality(opportunities) + 1,
           source         |-> row.source,
           external_id    |-> row.external_id,
           ai_match_score |-> NumericStored(row.ai_match_score),
           run            |-> row.run]}

\* InsertOpportunity that counts the candidate as inserted whatever the
\* database answers
InsertOpportunityCounted(r) ==
  /\ h[r].pc = "insert"
  /\ LET row == [source         |-> SIMPLER_GRANTS_GOV,
                 external_id    |-> Candidate(r),
                 ai_match_score |-> h[r].score.weighted_score,
                 run            |-> r]
     IN /\ opportunities' = InsertRow(row)
        /\ h' = [h EXCEPT ![r] = Continue(r,
                   [h[r].stats EXCEPT !.opportunities_inserted = @ + 1])]
  /\ UNCHANGED <<discovery_queries, org_profiles, discovery_runs, cancelReq, cancels, signal, env, token_budgets, lastRequest>>

\* the insert of the scored candidate: a row, or an insert:<id> entry
InsertOpportunity(r) ==
  /\ h[r].pc = "insert"
  /\ LET row == [source         |-> SIMPLER_GRANTS_GOV,
                 external_id    |-> Candidate(r),
                 ai_match_score |-> h[r].score.weighted_score,
                 run            |-> r]
         insertErr == InsertRow(row) = opportunities
     IN /\ opportunities' = InsertRow(row)
        /\ h' = [h EXCEPT ![r] = Continue(r,
                   IF insertErr
                   THEN PushError(h[r].stats, <<"insert", Candidate(r)>>)
                   ELSE [h[r].stats EXCEPT !.opportunities_inserted = @ + 1])]
  /\ UNCHANGED <<discovery_queries, org_profiles, discovery_runs, cancelReq, cancels, signal, env, token_budgets, lastRequest>>

(* ----------------------------- finalization ---------------------------- *)

\* FinalizeRun that rewinds the cursors of all queries
FinalizeRunResetCursors(r) ==
  /\ h[r].pc = "finalize"
  /\ discovery_runs' = [discovery_runs EXCEPT
       ![r].status = "completed",
       ![r].completed_at = TRUE,
       ![r].org_profile_id = h[r].orgProfile,
       ![r].stats = h[r].stats]
  /\ h' = [h EXCEPT ![r].pc = "done", ![r].fields = NoFields, ![r].score = NoScore,
                    ![r].text = NoText]
  /\ discovery_queries' = [q \in QueryIds |-> [discovery_queries[q] EXCEPT !.current_page = 1]]
  /\ UNCHANGED <<opportunities, org_profiles, cancelReq, cancels, signal, env, token_budgets, lastRequest>>

\* update discovery_runs set status = 'completed', completed_at,
\*   org_profile_id, ...stats
FinalizeRun(r) ==
  /\ h[r].pc = "finalize"
  /\ discovery_runs' = [discovery_runs EXCEPT
       ![r].status = "completed",
       ![r].completed_at = TRUE,
       ![r].org_profile_id = h[r].orgProfile,
       ![r].stats = h[r].stats]
  /\ h' = [h EXCEPT ![r].pc = "done", ![r].fields = NoFields, ![r].score = NoScore,
                    ![r].text = NoText]
  /\ UNCHANGED <<opportunities, discovery_queries, org_profiles, cancelReq, cancels, signal, env, token_budgets, lastRequest>>

\* FailRun that answers 500 without writing the run row
FailRunUnrecorded(r) ==
  /\ h[r].pc = "fatal"
  /\ h' = [h EXCEPT ![r].pc = "done"]
  /\ UNCHANGED <<opportunities, discovery_queries, org_profiles, discovery_runs,
                 cancelReq, cancels, signal, env, token_budgets, lastRequest>>

\* the outer catch: status = 'failed', completed_at, error_log = [fatal]
FailRun(r) ==
  /\ h[r].pc = "fatal"
  /\ discovery_runs' = [discovery_runs EXCEPT
       ![r].status = "failed",
       ![r].completed_at = TRUE,
       ![r].stats.error_log = << <<"fatal", "fatal">> >>]
  /\ h' = [h EXCEPT ![r].pc = "done"]
  /\ UNCHANGED <<opportunities, discovery_queries, org_profiles, cancelReq, cancels, signal, env, token_budgets, lastRequest>>

(* --------------------------- cancel endpoint --------------------------- *)

ActiveRuns == {r \in Runs : discovery_runs[r].status \in {"running", "cancelling"}}

\* order by started_at desc limit 1
MostRecent(S) == CHOOSE r \in S : \A q \in S : q <= r

\* an authorized POST: select the most recent active run; 404 if there is none
CancelSelect ==
  /\ cancelReq = NoCancel
  /\ cancels < env.cancels
  /\ discovery_runs # <<>>
  /\ cancels' = cancels + 1
  /\ cancelReq' = IF ActiveRuns = {} THEN NoCancel
                  ELSE [run    |-> MostRecent(ActiveRuns),
                        status |-> discovery_runs[MostRecent(ActiveRuns)].status]
  /\ UNCHANGED <<opportunities, discovery_queries, org_profiles, discovery_runs, h, signal, env, token_budgets, lastRequest>>

\* running -> cancelling, cancelling -> cancelled (with completed_at)
NewStatus(status) == IF status = "running" THEN "cancelling" ELSE "cancelled"

\* update discovery_runs set status = newStatus where id = run.id
CancelUpdate ==
  /\ cancelReq # NoCancel
  /\ LET r == cancelReq.run
         newStatus == NewStatus(cancelReq.status)
     IN /\ discovery_runs' = [discovery_runs EXCEPT
             ![r].status = newStatus,
             ![r].completed_at = IF newStatus = "cancelled" THEN TRUE ELSE @]
        /\ signal' = IF newStatus = "cancelling" /\ ~signal[r].set
                     THEN [signal EXCEPT ![r] = [set |-> TRUE, pc |-> h[r].pc,
                                                 processed |-> Processed(r)]]
                     ELSE signal
  /\ cancelReq' = NoCancel
  /\ UNCHANGED <<opportunities, discovery_queries, org_profiles, h, cancels, env, token_budgets, lastRequest>>

(* ---------------------------- specification ---------------------------- *)

Next ==
  \/ \E req \in env.requests : Receive(req)
  \/ \E r \in Runs :
       \/ LoadOrgProfile(r)
       \/ LoadQueries(r)
       \/ SearchQuery(r)
       \/ Deduplicate(r)
       \/ CheckCancel(r)
       \/ WriteCancelled(r)
       \/ FetchDetail(r)
       \/ ExtractFields(r)
       \/ ScoreOpportunity(r)
       \/ InsertOpportunity(r)
       \/ FinalizeRun(r)
       \/ FailRun(r)
  \/ CancelSelect
  \/ CancelUpdate

Spec == Init /\ [][Next]_vars

\* a step of the sync handler of run r
HandlerStep(r) ==
  /\ r \in Runs
  /\ \/ LoadOrgProfile(r)
     \/ LoadQueries(r)
     \/ SearchQuery(r)
     \/ Deduplicate(r)
     \/ CheckCancel(r)
     \/ WriteCancelled(r)
     \/ FetchDetail(r)
     \/ ExtractFields(r)
     \/ ScoreOpportunity(r)
     \/ InsertOpportunity(r)
     \/ FinalizeRun(r)
     \/ FailRun(r)

\* every awaited call of an invocation returns, so a handler that can take
\* a step eventually takes one; nothing obliges a trigger or a cancel
\* request to arrive
FairSpec ==
  InitLive /\ [][Next]_vars /\ \A r \in 1..MaxRuns : WF_vars(HandlerStep(r))

SpecOverlap == InitOverlap /\ [][Next]_vars

SpecParse == InitParse /\ [][Next]_vars

SpecRequests == InitRequests /\ [][Next]_vars

SpecSeeded == InitSeeded /\ [][Next]_vars

SpecCap == InitCap /\ [][Next]_vars

SpecCrowded == InitCrowded /\ [][Next]_vars

SpecSweep == InitSweep /\ [][Next]_vars


(* ------------------------------ vocabulary ----------------------------- *)

Terminal == {"completed", "failed", "cancelled"}

\* the handler of run r has computed its batch
PastDedup(r) == h[r].pc \in {"check", "cancelled", "detail", "extract", "score",
                             "insert", "finalize", "done"} /\ h[r].queries # <<>>

\* error-log entries of a given kind
Entries(log, kind) == {i \in 1..Len(log) : log[i][1] = kind}

CandidateKinds == {"process", "extract", "score", "insert"}

CandidateEntries(log) == {i \in 1..Len(log) : log[i][1] \in CandidateKinds}

\* the rows run r inserted
RowsOf(r) == {o \in opportunities : o.run = r}

(* -------------------------------- C1 ----------------------------------- *)

\* C1: in every reachable state at most one opportunity row exists for any
\* (source, external_id) pair with non-null external_id, and an insert that
\* carries a pair already stored is rejected: the table is left as it was.
C1_UniquePair ==
  /\ [](\A o1, o2 \in opportunities :
          (/\ o1.external_id # "null"
           /\ o1.source = o2.source
           /\ o1.external_id = o2.external_id) => o1 = o2)
  /\ [][\A r \in Runs :
          (/\ h[r].pc = "insert"
           /\ h'[r].pc # "insert"
           /\ \E o \in opportunities : /\ o.source = SIMPLER_GRANTS_GOV
                                       /\ o.external_id = Candidate(r))
          => /\ opportunities' = opportunities
             /\ h'[r].stats.error_log =
                  Append(h[r].stats.error_log, <<"insert", Candidate(r)>>)]_vars

\* a run was refused the insert of an id whose row another run had written
C1_Witness ==
  \E r \in Runs : \E i \in Entries(h[r].stats.error_log, "insert") :
    \E o \in opportunities : /\ o.external_id = h[r].stats.error_log[i][2]
                             /\ o.run # r

(* -------------------------------- C2 ----------------------------------- *)

\* C2: a run whose fetched ids all have a persisted opportunity row at the
\* time of its dedup gets an empty batch, inserts no row and makes no detail
\* or model call, whatever the cursors are.
C2_Idempotent ==
  /\ [][\A r \in Runs :
          (/\ h[r].pc = "dedup"
           /\ h'[r].pc # "dedup"
           /\ \A id \in Range(h[r].allIds) :
                \E o \in opportunities : o.external_id = id)
          => /\ h'[r].batch = <<>>
             /\ h'[r].pc = "finalize"]_vars
  /\ [](\A r \in Runs :
          (PastDedup(r) /\ h[r].batch = <<>>)
          => /\ RowsOf(r) = {}
             /\ h[r].stats.opportunities_inserted = 0
             /\ h[r].stats.opportunities_detail_fetched = 0
             /\ h[r].stats.tokens_haiku = 0
             /\ h[r].stats.tokens_sonnet = 0
             /\ CandidateEntries(h[r].stats.error_log) = {})

\* a second run fetched ids, found a row for each of them and is finished
C2_Witness ==
  \E r \in Runs :
    /\ r > 1
    /\ h[r].pc = "done"
    /\ h[r].allIds # <<>>
    /\ h[r].batch = <<>>
    /\ h[r].stats.opportunities_deduplicated = Len(h[r].allIds)
    /\ discovery_runs[r].status = "completed"
    /\ discovery_runs[r].stats.opportunities_inserted = 0

(* -------------------------------- C3 ----------------------------------- *)

\* C3: a candidate that reaches the threshold gate is inserted only if its
\* weighted_score is a number >= 5.0, so every row the pipeline wrote has
\* ai_match_score >= 5.0.
C3_ThresholdGate ==
  /\ \A r \in Runs :
       h[r].pc = "insert"
       => /\ h[r].score.weighted_score.tag = "num"
          /\ h[r].score.weighted_score.val >= SCORE_FLOOR
  /\ \A o \in opportunities :
       o.source = SIMPLER_GRANTS_GOV
       => /\ o.ai_match_score.tag = "num"
          /\ o.ai_match_score.val >= SCORE_FLOOR


(* -------------------------------- C4 ----------------------------------- *)

\* C4: when the pre-candidate check reads cancelling, no further candidate
\* is processed and the run row is written cancelled with the counters and
\* error log accumulated so far, the inserted rows staying in place; and a
\* run signalled between candidates, after exactly k of them finished (k
\* smaller than the batch size), processes exactly k candidates and ends
\* cancelled.
C4_Cancellation ==
  /\ [][\A r \in Runs :
          (h[r].pc = "cancelled" /\ h'[r].pc # "cancelled")
          => /\ h'[r].pc = "done"
             /\ h'[r].bi = h[r].bi
             /\ discovery_runs'[r].status = "cancelled"
             /\ discovery_runs'[r].completed_at
             /\ discovery_runs'[r].stats = h[r].stats
             /\ opportunities' = opportunities]_vars
  /\ [](\A r \in Runs :
          (/\ signal[r].set
           /\ signal[r].pc = "check"
           /\ signal[r].processed < Len(h[r].batch)
           /\ h[r].pc = "done")
          => /\ Processed(r) = signal[r].processed
             /\ discovery_runs[r].status = "cancelled")

(* -------------------------------- C5 ----------------------------------- *)

Max(a, b) == IF a >= b THEN a ELSE b

\* C5: after a successful fetch of page current_page that reports
\* total_pages = T, the stored cursor of the query is 1 if current_page >= T
\* and current_page + 1 otherwise, hence within 1..max(T, 1).
C5_CursorAdvance ==
  [][\A r \in Runs :
       (/\ h[r].pc = "search"
        /\ h'[r].qi = h[r].qi + 1
        /\ h'[r].stats.error_log = h[r].stats.error_log)
       => LET query  == h[r].queries[h[r].qi]
              T      == Len(env.registry[query.id])
              stored == discovery_queries'[query.id].current_page
          IN /\ (query.current_page >= T => stored = 1)
             /\ (query.current_page < T => stored = query.current_page + 1)
             /\ 1 <= stored
             /\ stored <= Max(T, 1)]_vars

\* the last page of a query of several pages was fetched and its cursor
\* wrapped to 1
C5_Witness ==
  \E r \in Runs :
    /\ h[r].queries # <<>>
    /\ h[r].qi > 1
    /\ h[r].queries[1].id = "q1"
    /\ h[r].queries[1].current_page = Len(env.registry["q1"])
    /\ h[r].queries[1].current_page > 1
    /\ Entries(h[r].stats.error_log, "query") = {}
    /\ discovery_queries["q1"].current_page = 1

(* -------------------------------- C6 ----------------------------------- *)

\* the step of run r in which the extraction call answered a text that parsed
ExtractionParsed(r) ==
  /\ h[r].pc = "extract"
  /\ h'[r].pc # "extract"
  /\ h'[r].stats.tokens_haiku > h[r].stats.tokens_haiku
  /\ h'[r].stats.error_log = h[r].stats.error_log

\* C6: a candidate whose extracted award ceiling is non-null and below 5000
\* never reaches the scoring stage: tokens_sonnet is unchanged, auto_rejected
\* grows by exactly one and no row is inserted; a candidate with a null
\* ceiling or one >= 5000 proceeds to scoring.
C6_PreScreen ==
  /\ [](\A r \in Runs :
          h[r].pc = "score"
          => \/ h[r].fields.amount_max = Null
             \/ /\ h[r].fields.amount_max.tag = "num"
                /\ h[r].fields.amount_max.val >= 5000)
  /\ [][\A r \in Runs :
          ExtractionParsed(r)
          => LET amount == h'[r].fields.amount_max IN
             IF amount.tag = "num" /\ amount.val < 5000
             THEN /\ h'[r].pc # "score"
                  /\ h'[r].bi = h[r].bi + 1
                  /\ h'[r].stats.tokens_sonnet = h[r].stats.tokens_sonnet
                  /\ h'[r].stats.opportunities_auto_rejected =
                       h[r].stats.opportunities_auto_rejected + 1
                  /\ h'[r].stats.opportunities_inserted =
                       h[r].stats.opportunities_inserted
                  /\ opportunities' = opportunities
             ELSE /\ h'[r].pc = "score"
                  /\ h'[r].bi = h[r].bi
                  /\ h'[r].stats.opportunities_auto_rejected =
                       h[r].stats.opportunities_auto_rejected]_vars

\* a candidate with ceiling 4999 was rejected by the pre-screen of a run
\* that has spent no scoring token
C6_Witness ==
  \E r \in Runs :
    /\ h[r].fields.amount_max = Num(4999)
    /\ h[r].stats.opportunities_auto_rejected = 1
    /\ h[r].stats.tokens_haiku > 0
    /\ h[r].stats.tokens_sonnet = 0
    /\ RowsOf(r) = {}

(* -------------------------------- C7 ----------------------------------- *)

\* the step of run r in which the scoring call answered a text that parsed
ScoringParsed(r) ==
  /\ h[r].pc = "score"
  /\ h'[r].pc # "score"
  /\ h'[r].stats.tokens_sonnet > h[r].stats.tokens_sonnet
  /\ h'[r].stats.error_log = h[r].stats.error_log

\* C7: a parsed scoring result with auto_rejected = true increments
\* opportunities_auto_rejected by exactly one and is neither inserted nor
\* counted as below threshold, whatever its weighted_score.
C7_AutoReject ==
  [][\A r \in Runs :
       (ScoringParsed(r) /\ h'[r].score.auto_rejected)
       => /\ h'[r].pc \in {"check", "finalize"}
          /\ h'[r].bi = h[r].bi + 1
          /\ h'[r].stats.opportunities_auto_rejected =
               h[r].stats.opportunities_auto_rejected + 1
          /\ h'[r].stats.opportunities_below_threshold =
               h[r].stats.opportunities_below_threshold
          /\ h'[r].stats.opportunities_inserted =
               h[r].stats.opportunities_inserted
          /\ opportunities' = opportunities]_vars

\* a result with auto_rejected = true and a score of 5.0 was counted as
\* rejected and no row exists for that candidate
C7_Witness ==
  \E r \in Runs :
    /\ h[r].score.auto_rejected
    /\ h[r].score.weighted_score = Num(50)
    /\ h[r].bi > 1
    /\ h[r].stats.opportunities_auto_rejected >= 1
    /\ h[r].stats.opportunities_below_threshold = 0
    /\ \A o \in opportunities : o.external_id # h[r].batch[h[r].bi - 1]


(* -------------------------------- C8 ----------------------------------- *)

C9_FinalizedOnce ==
  [][\A r \in Runs :
       discovery_runs[r].status \in Terminal
       => discovery_runs'[r].status = discovery_runs[r].status]_vars

(* -------------------------------- C10 ---------------------------------- *)

\* the queries of run r whose search call has been made and has answered
Answered(r) ==
  {i \in 1..Len(h[r].queries) :
     /\ i < h[r].qi
     /\ \A j \in Entries(h[r].stats.error_log, "query") :
          h[r].stats.error_log[j][2] # h[r].queries[i].id}

\* C10: a failed search call appends exactly one error-log entry labelled
\* with the query's label and contributes no ids; the other enabled queries
\* are still fetched, and the run does not fail: it ends completed unless a
\* cancel request arrives.
C10_QueryFailure ==
  /\ [][\A r \in Runs :
          (/\ h[r].pc = "search"
           /\ h'[r].pc # "search" \/ h'[r].qi # h[r].qi
           /\ discovery_queries' = discovery_queries
           /\ h'[r].stats.opportunities_fetched = h[r].stats.opportunities_fetched
           /\ h'[r].stats.error_log # h[r].stats.error_log)
          => /\ h'[r].stats.error_log =
                  Append(h[r].stats.error_log,
                         <<"query", h[r].queries[h[r].qi].id>>)
             /\ h'[r].allIds = h[r].allIds
             /\ h'[r].qi = h[r].qi + 1
             /\ h'[r].pc \in {"search", "dedup"}]_vars
  /\ [](\A r \in Runs :
          PastDedup(r)
          => /\ Cardinality(Entries(h[r].stats.error_log, "query")) + Cardinality(Answered(r))
                  = Len(h[r].queries)
             /\ Range(h[r].allIds) =
                  UNION {Range(SearchIds(h[r].queries[i].id, h[r].queries[i].current_page)) :
                           i \in Answered(r)}
             /\ (h[r].pc = "done" /\ Entries(h[r].stats.error_log, "query") # {})
                  => /\ discovery_runs[r].status # "failed"
                     /\ cancels = 0 => discovery_runs[r].status = "completed")

\* one query failed, another one brought ids, and the run ended completed
C10_Witness ==
  \E r \in Runs :
    /\ h[r].pc = "done"
    /\ Cardinality(Entries(discovery_runs[r].stats.error_log, "query")) = 1
    /\ Len(h[r].queries) > 1
    /\ h[r].allIds # <<>>
    /\ discovery_runs[r].status = "completed"

(* -------------------------------- C11 ---------------------------------- *)

\* the step of run r in which the detail call of its candidate failed
DetailFailed(r) ==
  /\ h[r].pc = "detail"
  /\ h'[r].pc # "detail"
  /\ h'[r].stats.opportunities_detail_fetched = h[r].stats.opportunities_detail_fetched

\* the step of run r in which a model call at stage pc answered a text that
\* parseJson turned into null
ParseFailed(r, pc) ==
  /\ h[r].pc = pc
  /\ h'[r].pc # pc
  /\ h'[r].text # NoText
  /\ ParseJson(h'[r].text) = JsonNull

\* the step of run r in which the database refused the insert of its candidate
InsertFailed(r) ==
  /\ h[r].pc = "insert"
  /\ h'[r].pc # "insert"
  /\ \/ h[r].score.weighted_score.tag = "str"
     \/ \E o \in opportunities : /\ o.source = SIMPLER_GRANTS_GOV
                                 /\ o.external_id = Candidate(r)

\* what the failure of the candidate of run r at a stage leaves behind: one
\* more error-log entry, no row, and the handler at the next candidate
Abandoned(r, entry) ==
  /\ h'[r].stats.error_log = Append(h[r].stats.error_log, entry)
  /\ entry[2] = Candidate(r)
  /\ opportunities' = opportunities
  /\ \A o \in RowsOf(r) : o.external_id # Candidate(r)
  /\ h'[r].stats.opportunities_inserted = h[r].stats.opportunities_inserted
  /\ h'[r].batch = h[r].batch
  /\ h'[r].bi = h[r].bi + 1
  /\ h'[r].pc = IF h[r].bi < Len(h[r].batch) THEN "check" ELSE "finalize"

\* C11: a candidate that fails at detail fetch, extraction parse, scoring
\* parse or insertion adds exactly one error-log entry that carries its id
\* and the stage, gets no opportunity row, is not taken up again in the run
\* (the batch holds each id once and the handler moves to the next
\* candidate), and the run does not fail: it ends completed unless a cancel
\* request arrives.
C11_CandidateFailure ==
  /\ [][\A r \in Runs :
          /\ DetailFailed(r)
               => Abandoned(r, <<"process", Candidate(r), "Detail API">>)
          /\ ParseFailed(r, "extract")
               => Abandoned(r, <<"extract", Candidate(r)>>)
          /\ ParseFailed(r, "score")
               => Abandoned(r, <<"score", Candidate(r)>>)
          /\ InsertFailed(r)
               => Abandoned(r, <<"insert", Candidate(r)>>)]_vars
  /\ [](\A r \in Runs :
          /\ \A i, j \in 1..Len(h[r].batch) : h[r].batch[i] = h[r].batch[j] => i = j
          /\ (h[r].pc = "done" /\ CandidateEntries(h[r].stats.error_log) # {})
               => /\ discovery_runs[r].status # "failed"
                  /\ cancels = 0 => discovery_runs[r].status = "completed")

\* the detail call of the first candidate failed, the second candidate was
\* taken up and refused by the database, and the run ended completed
\* without a row
C11_Witness ==
  \E r \in Runs :
    /\ h[r].pc = "done"
    /\ discovery_runs[r].status = "completed"
    /\ Len(h[r].batch) = 2
    /\ discovery_runs[r].stats.error_log =
         << <<"process", h[r].batch[1], "Detail API">>, <<"insert", h[r].batch[2]>> >>
    /\ RowsOf(r) = {}

(* -------------------------------- C12 ---------------------------------- *)

\* the handler of run r is before its query loop, or has left for the outer
\* catch from there
BeforeQueries(r) ==
  \/ h[r].pc \in {"loadProfile", "loadQueries", "fatal"}
  \/ h[r].pc = "done" /\ h[r].queries = <<>>

\* C12: when no org profile is active, or no query is enabled, the handler
\* leaves for the outer catch, which writes the run row failed with an
\* error log of exactly one entry, labelled fatal, and every counter zero;
\* up to then the handler made no registry or model call, advanced no
\* cursor and inserted nothing; the run ends failed unless a cancel request
\* arrives.
C12_FatalRun ==
  /\ [][\A r \in Runs :
          /\ (/\ h[r].pc = "loadProfile"
              /\ h'[r].pc # "loadProfile"
              /\ \A p \in org_profiles : ~p.is_active)
               => h'[r].pc = "fatal"
          /\ (/\ h[r].pc = "loadQueries"
              /\ h'[r].pc # "loadQueries"
              /\ \A q \in QueryIds : ~discovery_queries[q].enabled)
               => h'[r].pc = "fatal"
          /\ (h[r].pc = "fatal" /\ h'[r].pc # "fatal")
               => /\ h'[r].pc = "done"
                  /\ discovery_runs'[r].status = "failed"
                  /\ discovery_runs'[r].completed_at
                  /\ discovery_runs'[r].stats =
                       [ZeroStats EXCEPT !.error_log = << <<"fatal", "fatal">> >>]
          /\ (BeforeQueries(r) /\ h'[r] # h[r])
               => /\ discovery_queries' = discovery_queries
                  /\ opportunities' = opportunities]_vars
  /\ [](\A r \in Runs :
          BeforeQueries(r)
          => /\ h[r].stats = ZeroStats
             /\ h[r].allIds = <<>>
             /\ h[r].batch = <<>>
             /\ h[r].text = NoText
             /\ RowsOf(r) = {}
             /\ (h[r].pc = "done" /\ cancels = 0)
                  => discovery_runs[r].status = "failed")

\* a run found an active profile and no enabled query, and ended failed
\* with the single fatal entry
C12_Witness ==
  \E r \in Runs :
    /\ h[r].pc = "done"
    /\ h[r].orgProfile # "null"
    /\ h[r].queries = <<>>
    /\ \A q \in QueryIds : ~discovery_queries[q].enabled
    /\ discovery_runs[r].status = "failed"
    /\ discovery_runs[r].stats.error_log = << <<"fatal", "fatal">> >>
    /\ discovery_runs[r].stats.opportunities_fetched = 0

(* -------------------------------- C13 ---------------------------------- *)

\* the step in which a cancel request writes the run row
CancelWrites == cancelReq # NoCancel /\ cancelReq' = NoCancel

\* C13: a cancel request acts only on the most recently started run whose
\* status is running or cancelling: the row it writes is running and
\* becomes cancelling with no other field changed, or is cancelling and
\* becomes cancelled with completed_at set; no other row changes; a request
\* that finds no running or cancelling run changes no row; a row that is
\* completed, failed or cancelled is never written by a cancel request.
C13_CancelTarget ==
  /\ [][CancelWrites
        => LET r == cancelReq.run IN
           /\ discovery_runs[r].status \in {"running", "cancelling"}
           /\ r = MostRecent(ActiveRuns)
           /\ discovery_runs[r].status = "running"
                => discovery_runs' =
                     [discovery_runs EXCEPT ![r].status = "cancelling"]
           /\ discovery_runs[r].status = "cancelling"
                => discovery_runs' =
                     [discovery_runs EXCEPT ![r].status = "cancelled",
                                            ![r].completed_at = TRUE]]_vars
  /\ [][(cancels' = cancels + 1 /\ ActiveRuns = {})
        => /\ cancelReq' = NoCancel
           /\ discovery_runs' = discovery_runs]_vars

(* -------------------------------- C14 ---------------------------------- *)

\* s holds no JSON object
Prose(s) == \A i, j \in 1..Len(s) : ~JsonParses(SubSeq(s, i, j))

\* tokens i..j of text are a JSON object with prose before and after it,
\* and not a part of a larger object
ObjectInProse(text, i, j) ==
  /\ JsonParses(SubSeq(text, i, j))
  /\ Prose(SubSeq(text, 1, i - 1))
  /\ Prose(SubSeq(text, j + 1, Len(text)))
  /\ \A i2 \in 1..i, j2 \in j..Len(text) :
       JsonParses(SubSeq(text, i2, j2)) => i2 = i /\ j2 = j

\* C14: parseJson of a text made of prose, one JSON object and prose again,
\* where the prose may hold braces, is that object; and a response that
\* parseJson turns into null is recorded as one error entry of the
\* candidate, after which the handler goes on with the next candidate.
C14_ParseJson ==
  /\ [](\A r \in Runs :
          h[r].text # NoText
          => \A i, j \in 1..Len(h[r].text) :
               ObjectInProse(h[r].text, i, j)
               => ParseJson(h[r].text) = SubSeq(h[r].text, i, j))
  /\ [][\A r \in Runs :
          /\ ParseFailed(r, "extract")
               => /\ h'[r].stats.error_log =
                       Append(h[r].stats.error_log, <<"extract", Candidate(r)>>)
                  /\ h'[r].pc \in {"check", "finalize"}
          /\ ParseFailed(r, "score")
               => /\ h'[r].stats.error_log =
                       Append(h[r].stats.error_log, <<"score", Candidate(r)>>)
                  /\ h'[r].pc \in {"check", "finalize"}]_vars

(* -------------------------------- C15 ---------------------------------- *)

\* the tokens the handler of run r has counted for its model calls
TokensOf(stats) == stats.tokens_haiku + stats.tokens_sonnet

\* C15: the tokens_used of the current period's token_budgets row grows
\* with every step of a sync handler by the tokens that step counted into
\* tokens_haiku or tokens_sonnet, so that a finished run has raised it by
\* exactly its tokens_haiku + tokens_sonnet.
C15_TokenLedger ==
  /\ [][\A r \in Runs :
          h'[r] # h[r]
          => token_budgets'.tokens_used - token_budgets.tokens_used
               = TokensOf(h'[r].stats) - TokensOf(h[r].stats)]_vars
  /\ [](\A r \in Runs :
          (Len(discovery_runs) = 1 /\ h[r].pc = "done")
          => token_budgets.tokens_used = TokensOf(h[r].stats))

(* -------------------------------- C16 ---------------------------------- *)

\* the step in which the sync endpoint answers a request or starts a run
SyncAnswers ==
  lastRequest' # lastRequest \/ Len(discovery_runs') # Len(discovery_runs)

\* C16: a request whose method is neither GET nor POST is answered 405, one
\* that carries neither the cron secret nor the JWT of an admin 401, and
\* neither creates a run row, advances a cursor or inserts anything; a
\* request with the cron secret creates a run with triggered_by = cron, one
\* with an admin's JWT a run with triggered_by = manual, and the handler
\* starts from the same state in both cases.
C16_Authorization ==
  [][SyncAnswers
     => LET req == lastRequest'
            n   == Len(discovery_runs) + 1
        IN IF req.method \notin {"GET", "POST"}
           THEN /\ req.answer = "405"
                /\ UNCHANGED <<discovery_runs, h, discovery_queries, opportunities>>
           ELSE IF req.auth \notin {"cron", "admin"}
           THEN /\ req.answer = "401"
                /\ UNCHANGED <<discovery_runs, h, discovery_queries, opportunities>>
           ELSE /\ req.answer = "run"
                /\ Len(discovery_runs') = n
                /\ SubSeq(discovery_runs', 1, n - 1) = discovery_runs
                /\ discovery_runs'[n].status = "running"
                /\ discovery_runs'[n].triggered_by =
                     (IF req.auth = "cron" THEN "cron" ELSE "manual")
                /\ h'[n].pc = "loadProfile"
                /\ h'[n].stats = ZeroStats
                /\ h'[n].queries = <<>>
                /\ UNCHANGED <<discovery_queries, opportunities>>]_vars

\* a run was started with the cron secret, and a later request with the JWT
\* of a user who is no admin was answered 401 without a second run
C16_Witness ==
  /\ Len(discovery_runs) = 1
  /\ discovery_runs[1].triggered_by = "cron"
  /\ lastRequest = [method |-> "POST", auth |-> "user", answer |-> "401"]

(* -------------------------------- C17 ---------------------------------- *)

\* the fetched ids that have a row under the key (registry, id)
Known(idArray) ==
  {id \in Range(idArray) :
     \E o \in opportunities : /\ o.source = SIMPLER_GRANTS_GOV
                               /\ o.external_id = id}

CutOff(r) == Range(h[r].newIds) \ Range(h[r].batch)

\* run r + 1 read the cursors that run r left
ReadsCursorsOf(r) ==
  /\ Len(h[r + 1].queries) = Len(h[r].queries)
  /\ \A i \in 1..Len(h[r].queries) :
       /\ h[r + 1].queries[i].id = h[r].queries[i].id
       /\ h[r + 1].queries[i].current_page =
            NextPage(h[r].queries[i].current_page, TotalPages(h[r].queries[i].id))

\* C18: every new id of run N that the cap kept out of the batch is fetched
\* again by run N+1 and is among its new ids, when the registry is the same
\* and the searches of run N+1 succeed.
C18_CapCarryOver ==
  [][\A r \in Runs :
       (/\ r + 1 \in Runs
        /\ h[r].pc = "done"
        /\ Processed(r) = Len(h[r].batch)
        /\ Entries(h[r].stats.error_log, "query") = {}
        /\ h[r + 1].pc = "dedup"
        /\ h'[r + 1].pc # "dedup"
        /\ Entries(h[r + 1].stats.error_log, "query") = {}
        /\ ReadsCursorsOf(r))
       => \A id \in CutOff(r) :
            /\ id \in Range(h[r + 1].allIds)
            /\ id \in Range(h'[r + 1].newIds)]_vars

(* -------------------------------- C19 ---------------------------------- *)

\* a cancel request wrote cancelling on the row of run r while its handler
\* had not written a terminal status
Signalled(r) == signal[r].set /\ signal[r].pc # "done"

\* C19: a run that a cancel request moved from running to cancelling
\* before its handler wrote a terminal status ends cancelled, wherever the
\* handler was when the signal was written: in the query loop, between two
\* candidates, in the last candidate of the batch, or with an empty batch.
C19_SignalHonoured ==
  \A r \in Runs :
    (Signalled(r) /\ h[r].pc = "done")
    => discovery_runs[r].status = "cancelled"

(* -------------------------------- C20 ---------------------------------- *)

InFlight == {"detail", "extract", "score", "insert"}

\* C20: once cancelling is written on the row of a run, at most one more
\* candidate, the one in flight at that moment, completes before the
\* handler stops; and a candidate in flight is never aborted: its stages
\* lead to one another or to the end of its loop iteration.
C20_BoundedLatency ==
  /\ [](\A r \in Runs :
          Signalled(r)
          => /\ Processed(r) <= signal[r].processed + 1
             /\ signal[r].pc \notin InFlight => Processed(r) = signal[r].processed)
  /\ [][\A r \in Runs :
          (h[r].pc \in InFlight /\ h'[r].pc # h[r].pc)
          => /\ h'[r].pc \in InFlight \cup {"check", "finalize"}
             /\ h'[r].pc \in {"check", "finalize"} <=> h'[r].bi = h[r].bi + 1]_vars

(* -------------------------------- C21 ---------------------------------- *)

\* the steps of a handler that fetch a detail, call a model, insert an
\* opportunity or write the run row
Working == InFlight \cup {"cancelled", "finalize", "fatal"}

\* C21: once the status of a run is cancelled, in particular after the
\* cancel endpoint has forced a cancelling run to cancelled, the handler of
\* that run performs no further detail fetch, model call, opportunity
\* insert or write of the run row.
C21_StoppedWhenCancelled ==
  [][\A r \in Runs :
       (discovery_runs[r].status = "cancelled" /\ h'[r] # h[r])
       => h[r].pc \notin Working]_vars

(* -------------------------------- C22 ---------------------------------- *)

\* run r holds id in its batch
Holds(r, id) == id \in Range(h[r].batch)

\* C22: when two overlapping runs hold the same new id in their batches,
\* exactly one insert of it succeeds: at most one row exists for the id,
\* and the insert of a run that finds the row of the other appends one
\* insert:<id> entry, leaves opportunities_inserted as it was and leads to
\* the run's next candidate; that run ends completed unless a cancel
\* request arrives.
C22_OverlappingInsert ==
  /\ [][\A r \in Runs :
          (/\ h[r].pc = "insert"
           /\ h'[r].pc # "insert"
           /\ \E q \in Runs \ {r} : Holds(q, Candidate(r))
           /\ \E o \in opportunities : /\ o.external_id = Candidate(r)
                                       /\ o.run # r)
          => /\ opportunities' = opportunities
             /\ h'[r].stats.error_log =
                  Append(h[r].stats.error_log, <<"insert", Candidate(r)>>)
             /\ h'[r].stats.opportunities_inserted =
                  h[r].stats.opportunities_inserted
             /\ h'[r].bi = h[r].bi + 1
             /\ h'[r].pc = IF h[r].bi < Len(h[r].batch) THEN "check" ELSE "finalize"]_vars
  /\ [](\A r \in Runs :
          /\ \A id \in Range(h[r].batch) :
               Cardinality({o \in opportunities : o.external_id = id}) <= 1
          /\ h[r].stats.opportunities_inserted = Cardinality(RowsOf(r))
          /\ (/\ h[r].pc = "done"
              /\ Entries(h[r].stats.error_log, "insert") # {}
              /\ cancels = 0)
               => discovery_runs[r].status = "completed")

\* two runs held id a in their batches and both ended completed: one has
\* the row, the other the insert:a entry and no row
C22_Witness ==
  \E r, q \in Runs :
    /\ r # q
    /\ Holds(r, "a") /\ Holds(q, "a")
    /\ h[r].pc = "done" /\ h[q].pc = "done"
    /\ discovery_runs[r].status = "completed"
    /\ discovery_runs[q].status = "completed"
    /\ Cardinality(RowsOf(r)) = 1
    /\ discovery_runs[r].stats.opportunities_inserted = 1
    /\ RowsOf(q) = {}
    /\ discovery_runs[q].stats.opportunities_inserted = 0
    /\ discovery_runs[q].stats.error_log = << <<"insert", "a">> >>

(* -------------------------------- C23 ---------------------------------- *)

\* the ids run r abandoned: cut by the cap, or dropped at a failed stage
AbandonedIds(r) ==
  CutOff(r) \cup {h[r].stats.error_log[i][2] : i \in CandidateEntries(h[r].stats.error_log)}

\* every invocation the environment sends has run to completion with all
\* its searches succeeding
AllRunsCompleted ==
  /\ Len(discovery_runs) = env.runs
  /\ \A r \in Runs : /\ h[r].pc = "done"
                     /\ discovery_runs[r].status = "completed"
                     /\ Entries(h[r].stats.error_log, "query") = {}

\* C23: an id a run abandoned has no row of that run, passes the dedup of
\* a later run that fetches it while no row exists for it, and, once the
\* recurring runs against the unchanged registry have all completed, has
\* been in the batch (and so at the detail fetch) of some later run.
C23_Reattempted ==
  \A r \in Runs : \A id \in AbandonedIds(r) :
    /\ \A o \in RowsOf(r) : o.external_id # id
    /\ \A q \in Runs :
         (/\ q > r
          /\ PastDedup(q)
          /\ id \in Range(h[q].allIds)
          /\ \A o \in opportunities : o.external_id # id)
         => id \in Range(h[q].newIds)
    /\ (AllRunsCompleted /\ r < env.runs)
         => \E q \in Runs : q > r /\ id \in Range(h[q].batch)

(* -------------------------------- C24 ---------------------------------- *)

\* run r has fetched query q successfully
Fetched(r, q) ==
  \E i \in 1..Len(h[r].queries) :
    /\ h[r].queries[i].id = q
    /\ i < h[r].qi
    /\ \A e \in Entries(h[r].stats.error_log, "query") :
         h[r].stats.error_log[e] # <<"query", q>>

\* the page of query q that run r asked for
PageOf(r, q) ==
  LET i == CHOOSE i \in 1..Len(h[r].queries) : h[r].queries[i].id = q
  IN h[r].queries[i].current_page

\* C24: for a query of N pages whose fetches succeed, consecutive runs
\* fetch its pages in cyclic order (the page after p is p + 1, and 1 after
\* page N or beyond), every page 1..N is fetched exactly once in N
\* consecutive runs that start within 1..N, and after a fetch with a cursor
\* beyond N the stored cursor is 1.
C24_CyclicPages ==
  \A q \in QueryIds : \A r \in Runs :
    LET N == TotalPages(q) IN
    Fetched(r, q) =>
      /\ (r + 1 \in Runs /\ Fetched(r + 1, q))
           => PageOf(r + 1, q) = IF PageOf(r, q) < N THEN PageOf(r, q) + 1 ELSE 1
      /\ (/\ PageOf(r, q) \in 1..N
          /\ r + N - 1 \in Runs
          /\ \A k \in 0..(N - 1) : Fetched(r + k, q))
           => \A p \in 1..N :
                Cardinality({k \in 0..(N - 1) : PageOf(r + k, q) = p}) = 1
      /\ (/\ PageOf(r, q) > N
          /\ \A k \in Runs : k > r => ~Fetched(k, q))
           => discovery_queries[q].current_page = 1

\* two consecutive runs have fetched the two pages of the first query, the
\* second page first and then, wrapped, the first
C24_Witness ==
  /\ Len(discovery_runs) >= 2
  /\ Fetched(1, "q1") /\ PageOf(1, "q1") = 2
  /\ Fetched(2, "q1") /\ PageOf(2, "q1") = 1
  /\ h[2].pc = "done"

(* -------------------------------- C25 ---------------------------------- *)

\* C25: the cursors change only in the step in which the search of a query
\* of a run succeeds, and then only the current_page of that query: a step
\* that logs a failed fetch, every step of a run that aborts before its
\* queries are loaded, and every later stage of a run (dedup, cap,
\* candidates, cancellation, finalization) leave all cursors as they were,
\* and a disabled query's cursor never changes.
C25_CursorFrame ==
  [][discovery_queries' # discovery_queries =>
       \E r \in Runs :
         /\ h[r].pc = "search"
         /\ h'[r].qi = h[r].qi + 1
         /\ h'[r].stats.error_log = h[r].stats.error_log
         /\ LET q == h[r].queries[h[r].qi].id
            IN /\ discovery_queries[q].enabled
               /\ discovery_queries'[q].enabled
               /\ \A x \in QueryIds \ {q} :
                    discovery_queries'[x] = discovery_queries[x]]_vars

\* a run has ended in which the fetch of the first query succeeded and
\* moved its cursor from 1 to 2, while the fetch of the second failed
C25_Witness ==
  \E r \in Runs :
    /\ h[r].pc = "done"
    /\ Len(h[r].queries) >= 2
    /\ h[r].queries[1] = [id |-> "q1", current_page |-> 1]
    /\ discovery_queries["q1"].current_page = 2
    /\ Entries(h[r].stats.error_log, "query") # {}
    /\ \A e \in Entries(h[r].stats.error_log, "query") :
         h[r].stats.error_log[e] = <<"query", "q2">>

(* -------------------------------- C26 ---------------------------------- *)

\* the step of run r that ends its current candidate
Outcomes(r) ==
  /\ h'[r].bi = h[r].bi + 1
  /\ h'[r].pc = IF h[r].bi < Len(h[r].batch) THEN "check" ELSE "finalize"

\* the step of run r that takes its current candidate to stage pc
Advances(r, pc) == h'[r].bi = h[r].bi /\ h'[r].pc = pc

\* a model answer that parseJson turns into an object
Parsed(text) == text # NoText /\ ParseJson(text) # JsonNull

\* C26: the stages of a candidate follow one another as detail fetch,
\* extraction, scoring, insertion, each either passing the candidate on or
\* ending it; scoring is reached only with a parsed extraction whose
\* amount_max is not a number below the minimum, insertion only with a
\* parsed scoring answer, and the next candidate begins only in the step
\* that ends the current one.
C26_StageOrder ==
  /\ [](\A r \in Runs :
          /\ h[r].pc = "score"
               => /\ Parsed(h[r].text)
                  /\ ~(/\ h[r].fields.amount_max.tag = "num"
                        /\ h[r].fields.amount_max.val < MIN_AWARD_CEILING)
                  /\ h[r].stats.opportunities_detail_fetched >= 1
          /\ h[r].pc = "insert" => Parsed(h[r].text))
  /\ [][\A r \in Runs :
          /\ (h[r].pc = "check" /\ h'[r] # h[r])
               => Advances(r, "detail") \/ Advances(r, "cancelled")
          /\ (h[r].pc = "detail" /\ h'[r] # h[r])
               => Advances(r, "extract") \/ Outcomes(r)
          /\ (h[r].pc = "extract" /\ h'[r] # h[r])
               => Advances(r, "score") \/ Outcomes(r)
          /\ (h[r].pc = "score" /\ h'[r] # h[r])
               => Advances(r, "insert") \/ Outcomes(r)
          /\ (h[r].pc = "insert" /\ h'[r] # h[r]) => Outcomes(r)
          /\ h'[r].bi # h[r].bi => h[r].pc \in InFlight]_vars

\* the second candidate of a run is at the insert, after the first went
\* through all its stages and was inserted
C26_Witness ==
  \E r \in Runs :
    /\ h[r].pc = "insert"
    /\ h[r].bi = 2
    /\ \E o \in RowsOf(r) : o.external_id = h[r].batch[1]

(* -------------------------------- C27 ---------------------------------- *)

StageCounters ==
  {"opportunities_fetched", "opportunities_deduplicated",
   "opportunities_detail_fetched", "opportunities_auto_rejected",
   "opportunities_below_threshold", "opportunities_inserted",
   "tokens_haiku", "tokens_sonnet"}

\* C27: for every run whose status is completed, cancelled or failed, the
\* persisted opportunities_inserted is the number of rows the run inserted,
\* and every persisted stage counter is the tally of what the handler of
\* the run did.
C27_CountersExact ==
  \A r \in Runs :
    discovery_runs[r].status \in Terminal
    => /\ discovery_runs[r].stats.opportunities_inserted = Cardinality(RowsOf(r))
       /\ \A c \in StageCounters : discovery_runs[r].stats[c] = h[r].stats[c]

(* -------------------------------- C28 ---------------------------------- *)

\* the entries of a log left by detail fetches that failed
DetailEntries(log) ==
  {i \in Entries(log, "process") : log[i][3] = "Detail API"}

\* C28: in the row of a completed run the candidates of the batch are
\* accounted for exactly once: the size of the batch is the sum of
\* opportunities_inserted, opportunities_auto_rejected,
\* opportunities_below_threshold and the number of per-candidate entries of
\* the error log, and opportunities_detail_fetched is the size of the batch
\* less the candidates whose detail fetch failed.
C28_BatchAccounting ==
  \A r \in Runs :
    discovery_runs[r].status = "completed"
    => LET st == discovery_runs[r].stats
       IN /\ Len(h[r].batch) =
               st.opportunities_inserted + st.opportunities_auto_rejected
               + st.opportunities_below_threshold
               + Cardinality(CandidateEntries(st.error_log))
          /\ st.opportunities_detail_fetched =
               Len(h[r].batch) - Cardinality(DetailEntries(st.error_log))

\* a completed run with a batch of two: one candidate inserted, the detail
\* fetch of the other failed
C28_Witness ==
  \E r \in Runs :
    /\ discovery_runs[r].status = "completed"
    /\ Len(h[r].batch) = 2
    /\ discovery_runs[r].stats.opportunities_inserted = 1
    /\ discovery_runs[r].stats.opportunities_detail_fetched = 1
    /\ Cardinality(DetailEntries(discovery_runs[r].stats.error_log)) = 1

(* -------------------------------- C29 ---------------------------------- *)

\* C29: no run takes more than MAX_NEW_PER_RUN candidates, however many
\* new ids its queries returned: the batch, the candidates gone through,
\* the details fetched and the calls of either model (each reporting at
\* most the greatest usage of the environment) stay within the cap, in the
\* handler and in the run row.
C29_Cap ==
  \A r \in Runs :
    /\ Len(h[r].batch) <= MAX_NEW_PER_RUN
    /\ Processed(r) <= MAX_NEW_PER_RUN
    /\ h[r].stats.opportunities_detail_fetched <= MAX_NEW_PER_RUN
    /\ h[r].stats.tokens_haiku <= MAX_NEW_PER_RUN * Greatest(env.usages)
    /\ h[r].stats.tokens_sonnet <= MAX_NEW_PER_RUN * Greatest(env.usages)
    /\ discovery_runs[r].stats.opportunities_detail_fetched <= MAX_NEW_PER_RUN

\* a run whose queries returned eight new ids has ended after seven detail
\* fetches, seven extractions and seven scorings
C29_Witness ==
  \E r \in Runs :
    /\ Len(h[r].newIds) = MAX_NEW_PER_RUN + 1
    /\ h[r].pc = "done"
    /\ discovery_runs[r].status = "completed"
    /\ discovery_runs[r].stats.opportunities_detail_fetched = MAX_NEW_PER_RUN
    /\ discovery_runs[r].stats.tokens_haiku = MAX_NEW_PER_RUN
    /\ discovery_runs[r].stats.tokens_sonnet = MAX_NEW_PER_RUN

(* -------------------------------- C30 ---------------------------------- *)

\* C30: every opportunity row stays in the table exactly as it was written:
\* no step of a sync run updates or deletes a row, whether another run, an
\* earlier step of the same run or nobody of the pipeline inserted it; a
\* step adds at most one row, under an id no row has.
C30_InsertOnly ==
  [][/\ \A o \in opportunities : o \in opportunities'
     /\ Cardinality(opportunities' \ opportunities) <= 1
     /\ \A n \in opportunities' \ opportunities :
          \A o \in opportunities : o.id # n.id]_vars

\* a run has attempted the insert of an id whose row another run had
\* written, and that row is still there
C30_Witness ==
  \E r, q \in Runs :
    /\ r # q
    /\ Entries(h[q].stats.error_log, "insert") # {}
    /\ \E o \in opportunities : /\ o.run = r
                                /\ o.external_id = "a"
                                /\ o.ai_match_score = Num(50)
    /\ Cardinality(opportunities) = 1

====
